---- MODULE Spec2Model ----
(***************************************************************************)
(* Translation gateway (src/main.py): a FastAPI application whose handlers *)
(* run on one asyncio event loop.  A handler runs without interruption up  *)
(* to its next await; the only await of the program is the predict call    *)
(* that translate hands to a worker thread.                                *)
(***************************************************************************)
EXTENDS Integers, Sequences, FiniteSets, TLC

(* ---------------------------------------------------------------- bounds *)
\* number of HTTP requests a behaviour serves
NumRequests == 2

Requests == 1..NumRequests

(* ------------------------------------------------------ program constants *)
\* GRADIO_URL default, line 15
GRADIO_URL == "KMayanja/testTranslate"
\* TranslationInput.max_length default, line 38
DefaultMaxLength == 512

(* ----------------------------------------------------------- input values *)
\* values HF_TOKEN may hold after os.getenv; "" stands for unset or empty
Tokens == {"", "hf_secret"}
\* language tags sent by clients; the last one is not a parsable tag
LangTags == {"en", "fr", "xx-??"}
\* tags langcodes.Language.get accepts without LanguageTagError
ParsableTags == {"en", "fr"}
Texts == {"hello"}
\* results client.predict returns
Results == {"bonjour", "salut"}
\* str(e) of the exceptions the gradio client raises
ExcTexts == {"timeout", "unauthorized"}

TranslationInput == [text : Texts, source_lang : LangTags, target_lang : LangTags, max_length : {DefaultMaxLength}]
\* placeholder body of the requests that carry none
NoInput == [text |-> "", source_lang |-> "", target_lang |-> "", max_length |-> 0]

\* outcomes of client.predict: a returned result or a raised exception
PredictOutcomes == [ok : {TRUE}, value : Results] \cup [ok : {FALSE}, value : ExcTexts]

VARIABLES
    HF_TOKEN,    \* module global read once from the environment
    translator,  \* module global `translator`
    cache,       \* entries held by lru_cache(maxsize=1) of _create_translator
    created,     \* number of Client objects constructed successfully
    arrived,     \* number of requests received so far
    kind,        \* kind[r]: the endpoint request r addresses
    input,       \* input[r]: the TranslationInput of a /translate request
    pc,          \* pc[r]: "idle", "awaiting" (suspended at the await) or "done"
    predictOn,   \* predictOn[r]: the thread that runs the pending predict of r
    client,      \* client[r]: handles get_translator returned to the handler of r
    initError,   \* initError[r]: str(e) of the RuntimeError get_translator raised
    constructs,  \* constructs[r]: Client(...) constructions run by the handler of r
    calls,       \* calls[r]: keyword arguments of the predict calls made for r
    outcome,     \* outcome[r]: what the predict call of r returned or raised
    responses    \* responses[r]: HTTP responses sent for r

vars == <<HF_TOKEN, translator, cache, created, arrived, kind, input, pc, predictOn, client, initError, constructs, calls, outcome, responses>>

None == "None"

(* ---------------------------------------------------------- pure helpers *)
\* an f-string: a fixed prefix followed by the formatted argument
Fmt(prefix, arg) == <<prefix, arg>>

\* Client(GRADIO_URL, hf_token=HF_TOKEN) or Client(GRADIO_URL); n identifies the object
Client(n, token) == IF token # "" THEN [id |-> n, src |-> GRADIO_URL, auth |-> TRUE, hf_token |-> token] ELSE [id |-> n, src |-> GRADIO_URL, auth |-> FALSE, hf_token |-> ""]

\* validate_language: True unless Language.get raises LanguageTagError
validate_language(lang) == lang \in ParsableTags

(* ------------------------------------------------- the client accessor *)
\* lines 18-22: a construction is attempted on every call, nothing is looked up
create_translator_uncached(c, n, token, ok) == IF ok THEN [cache |-> {Client(n + 1, token)}, value |-> <<Client(n + 1, token)>>, raised |-> FALSE, attempts |-> 1, created |-> n + 1] ELSE [cache |-> c, value |-> <<>>, raised |-> TRUE, attempts |-> 1, created |-> n]

\* lines 18-22: a raised construction is stored as an entry (id 0) and raised again on later calls
create_translator_memo_raise(c, n, token, ok) ==
    IF c # {} /\ (\A h \in c : h.id = 0)
    THEN [cache |-> c, value |-> <<>>, raised |-> TRUE, attempts |-> 0, created |-> n]
    ELSE IF c # {}
    THEN [cache |-> c, value |-> <<CHOOSE h \in c : TRUE>>, raised |-> FALSE, attempts |-> 0, created |-> n]
    ELSE IF ok
    THEN [cache |-> {Client(n + 1, token)}, value |-> <<Client(n + 1, token)>>, raised |-> FALSE, attempts |-> 1, created |-> n + 1]
    ELSE [cache |-> {Client(0, token)}, value |-> <<>>, raised |-> TRUE, attempts |-> 1, created |-> n]

\* _create_translator under lru_cache(maxsize=1), called with no arguments:
\* c is the cache, n the number of Client objects built so far, ok whether
\* the Client constructor returns.  A hit returns the stored object and runs
\* nothing; a miss runs the body, and only a returned value is stored (an
\* exception leaves the cache as it was).
create_translator(c, n, token, ok) ==
    IF c # {}
    THEN [cache |-> c, value |-> <<CHOOSE h \in c : TRUE>>, raised |-> FALSE, attempts |-> 0, created |-> n]
    ELSE IF ok
    THEN [cache |-> {Client(n + 1, token)}, value |-> <<Client(n + 1, token)>>, raised |-> FALSE, attempts |-> 1, created |-> n + 1]
    ELSE [cache |-> c, value |-> <<>>, raised |-> TRUE, attempts |-> 1, created |-> n]

\* get_translator: the client, or RuntimeError(f"Failed to initialize Gradio client: {e}")
get_translator(c, n, token, ok, e) ==
    LET t == create_translator(c, n, token, ok)
    IN  IF t.raised
        THEN [cache |-> t.cache, created |-> t.created, attempts |-> t.attempts, client |-> <<>>, error |-> <<Fmt("Failed to initialize Gradio client: ", e)>>]
        ELSE [cache |-> t.cache, created |-> t.created, attempts |-> t.attempts, client |-> t.value, error |-> <<>>]

(* ------------------------------------------------------------ responses *)
\* the 503 of translate carrying str(e) of the RuntimeError
ServiceUnavailable_leak(err) == [status |-> 503, body |-> [detail |-> err]]

\* line 78: HTTPException(503) with a fixed detail; err is only logged
ServiceUnavailable(err) == [status |-> 503, body |-> [detail |-> Fmt("Translation service unavailable", "")]]

\* lines 81-84 with the two checks in the other order
validation_target_first(inp) ==
    IF ~validate_language(inp.target_lang)
    THEN <<[status |-> 400, body |-> [detail |-> Fmt("Invalid target language code: ", inp.target_lang)]]>>
    ELSE IF ~validate_language(inp.source_lang)
    THEN <<[status |-> 400, body |-> [detail |-> Fmt("Invalid source language code: ", inp.source_lang)]]>>
    ELSE <<>>

\* lines 81-84: the HTTPException(400) raised for the request body, if any
validation(inp) ==
    IF ~validate_language(inp.source_lang)
    THEN <<[status |-> 400, body |-> [detail |-> Fmt("Invalid source language code: ", inp.source_lang)]]>>
    ELSE IF ~validate_language(inp.target_lang)
    THEN <<[status |-> 400, body |-> [detail |-> Fmt("Invalid target language code: ", inp.target_lang)]]>>
    ELSE <<>>

\* lines 88-92: the keyword arguments predict is called with
predict_kwargs(inp) == [text |-> inp.text, source_language |-> inp.source_lang, target_language |-> inp.target_lang, api_name |-> "/predict"]

\* the success body with the two language fields exchanged
TranslationResponse_swapped(result, inp) == [status |-> 200, body |-> [translated_text |-> result, source_lang |-> inp.target_lang, target_lang |-> inp.source_lang]]

\* lines 94-98: the success body
TranslationResponse(result, inp) == [status |-> 200, body |-> [translated_text |-> result, source_lang |-> inp.source_lang, target_lang |-> inp.target_lang]]

\* line 101: HTTPException(502) with a fixed detail; e is only logged
UpstreamFailed(e) == [status |-> 502, body |-> [detail |-> Fmt("Upstream translation failed", "")]]

\* warm answering "warmed" whatever get_translator did
WarmResponse_swallow(g) == [status |-> 200, body |-> [status |-> "warmed"]]

\* lines 106-110: "warmed", or HTTPException(503, detail=str(e))
WarmResponse(g) == IF g.error = <<>> THEN [status |-> 200, body |-> [status |-> "warmed"]] ELSE [status |-> 503, body |-> [detail |-> g.error[1]]]

\* line 68: the body of /health, given the module global
HealthResponse(t) == [status |-> 200, body |-> [status |-> "healthy", client_loaded |-> (t # None)]]

\* line 115
RootResponse == [status |-> 200, body |-> [message |-> "Welcome to the Translation API. Use /translate for translations or /health to check status."]]

\* line 63: Response(status_code=200), no body
OptionsResponse == [status |-> 200, body |-> [content |-> ""]]

(* ------------------------------------------------------- the event loop *)
\* client.predict called directly in the coroutine
to_thread_inline == "loop"

\* line 87: asyncio.to_thread runs client.predict on a worker thread
to_thread == "worker"

\* the loop thread runs callbacks unless a coroutine blocks it in predict
LoopFree == \A q \in Requests : predictOn[q] # "loop"

Respond(r, resp) == responses' = [responses EXCEPT ![r] = Append(@, resp)]

\* the server hands the next request to its handler
Receive(r, k, inp) ==
    /\ r \in Requests
    /\ r = arrived + 1
    /\ pc[r] = "idle"
    /\ LoopFree
    /\ arrived' = r
    /\ kind' = [kind EXCEPT ![r] = k]
    /\ input' = [input EXCEPT ![r] = inp]

Acquire(r, g) ==
    /\ cache' = g.cache
    /\ created' = g.created
    /\ constructs' = [constructs EXCEPT ![r] = @ + g.attempts]
    /\ client' = [client EXCEPT ![r] = g.client]
    /\ initError' = [initError EXCEPT ![r] = g.error]

(* -------------------------------------------------------------- handlers *)
Init ==
    /\ HF_TOKEN \in Tokens
    /\ translator = None
    /\ cache = {}
    /\ created = 0
    /\ arrived = 0
    /\ kind = [r \in Requests |-> "none"]
    /\ input = [r \in Requests |-> NoInput]
    /\ pc = [r \in Requests |-> "idle"]
    /\ predictOn = [r \in Requests |-> "none"]
    /\ client = [r \in Requests |-> <<>>]
    /\ initError = [r \in Requests |-> <<>>]
    /\ constructs = [r \in Requests |-> 0]
    /\ calls = [r \in Requests |-> <<>>]
    /\ outcome = [r \in Requests |-> <<>>]
    /\ responses = [r \in Requests |-> <<>>]

\* translate, lines 72-93: from the call of the handler to its await
Translate(r, inp, ok, e) ==
    /\ Receive(r, "translate", inp)
    /\ LET g == get_translator(cache, created, HF_TOKEN, ok, e)
           bad == validation(inp)
       IN  /\ Acquire(r, g)
           /\ IF g.error # <<>>
              THEN /\ Respond(r, ServiceUnavailable(g.error[1]))
                   /\ pc' = [pc EXCEPT ![r] = "done"]
                   /\ UNCHANGED <<calls, predictOn>>
              ELSE IF bad # <<>>
              THEN /\ Respond(r, bad[1])
                   /\ pc' = [pc EXCEPT ![r] = "done"]
                   /\ UNCHANGED <<calls, predictOn>>
              ELSE /\ calls' = [calls EXCEPT ![r] = Append(@, predict_kwargs(inp))]
                   /\ predictOn' = [predictOn EXCEPT ![r] = to_thread]
                   /\ pc' = [pc EXCEPT ![r] = "awaiting"]
                   /\ UNCHANGED responses
    /\ UNCHANGED <<HF_TOKEN, translator, outcome>>

\* the except branch calling predict once more before giving up
except_predict_retry(r, e) ==
    IF Len(calls[r]) < 2
    THEN /\ calls' = [calls EXCEPT ![r] = Append(@, predict_kwargs(input[r]))]
         /\ UNCHANGED <<pc, predictOn, responses>>
    ELSE /\ Respond(r, UpstreamFailed(e))
         /\ pc' = [pc EXCEPT ![r] = "done"]
         /\ predictOn' = [predictOn EXCEPT ![r] = "none"]
         /\ UNCHANGED calls

\* lines 99-101: predict raised e
except_predict(r, e) ==
    /\ Respond(r, UpstreamFailed(e))
    /\ pc' = [pc EXCEPT ![r] = "done"]
    /\ predictOn' = [predictOn EXCEPT ![r] = "none"]
    /\ UNCHANGED calls

\* translate, lines 87-101: predict ends on its thread and the coroutine resumes
PredictReturn(r, out) ==
    /\ r \in Requests
    /\ pc[r] = "awaiting"
    /\ \A q \in Requests \ {r} : predictOn[q] # "loop"
    /\ outcome' = [outcome EXCEPT ![r] = <<out>>]
    /\ IF out.ok
       THEN /\ Respond(r, TranslationResponse(out.value, input[r]))
            /\ pc' = [pc EXCEPT ![r] = "done"]
            /\ predictOn' = [predictOn EXCEPT ![r] = "none"]
            /\ UNCHANGED calls
       ELSE except_predict(r, out.value)
    /\ UNCHANGED <<HF_TOKEN, translator, cache, created, arrived, kind, input, client, initError, constructs>>

\* warm, lines 104-110
Warm(r, ok, e) ==
    /\ Receive(r, "warm", NoInput)
    /\ LET g == get_translator(cache, created, HF_TOKEN, ok, e)
       IN  /\ Acquire(r, g)
           /\ Respond(r, WarmResponse(g))
    /\ pc' = [pc EXCEPT ![r] = "done"]
    /\ UNCHANGED <<HF_TOKEN, translator, calls, outcome, predictOn>>

\* health_check, lines 66-68
HealthCheck(r) ==
    /\ Receive(r, "health", NoInput)
    /\ Respond(r, HealthResponse(translator))
    /\ pc' = [pc EXCEPT ![r] = "done"]
    /\ UNCHANGED <<HF_TOKEN, translator, cache, created, client, initError, constructs, calls, outcome, predictOn>>

\* root, lines 113-115
Root(r) ==
    /\ Receive(r, "root", NoInput)
    /\ Respond(r, RootResponse)
    /\ pc' = [pc EXCEPT ![r] = "done"]
    /\ UNCHANGED <<HF_TOKEN, translator, cache, created, client, initError, constructs, calls, outcome, predictOn>>

\* translate_options, lines 61-63
TranslateOptions(r) ==
    /\ Receive(r, "options", NoInput)
    /\ Respond(r, OptionsResponse)
    /\ pc' = [pc EXCEPT ![r] = "done"]
    /\ UNCHANGED <<HF_TOKEN, translator, cache, created, client, initError, constructs, calls, outcome, predictOn>>

Next ==
    \/ \E r \in Requests, inp \in TranslationInput, ok \in BOOLEAN, e \in ExcTexts : Translate(r, inp, ok, e)
    \/ \E r \in Requests, out \in PredictOutcomes : PredictReturn(r, out)
    \/ \E r \in Requests, ok \in BOOLEAN, e \in ExcTexts : Warm(r, ok, e)
    \/ \E r \in Requests : HealthCheck(r)
    \/ \E r \in Requests : Root(r)
    \/ \E r \in Requests : TranslateOptions(r)

Spec == Init /\ [][Next]_vars

(* ------------------------------------------------------------ properties *)
Malformed(lang) == ~validate_language(lang)

\* a handle was cached when request r reached get_translator
WarmAt(r) == \E q \in Requests : q < r /\ client[q] # <<>>

\* C1: a /translate request whose get_translator raised is answered 503 with
\* the fixed detail, whatever its language tags and the exception text are,
\* and no predict call is made for it.
C1_InitFailureAnswered503 ==
    \A r \in Requests : (kind[r] = "translate" /\ initError[r] # <<>>) =>
        /\ pc[r] = "done"
        /\ responses[r] = <<[status |-> 503, body |-> [detail |-> Fmt("Translation service unavailable", "")]]>>
        /\ calls[r] = <<>>

\* two init failures with different exception texts and malformed tags, same answer
C1_Witness ==
    \E r, q \in Requests :
        /\ kind[r] = "translate" /\ kind[q] = "translate"
        /\ initError[r] # <<>> /\ initError[q] # <<>> /\ initError[r] # initError[q]
        /\ Malformed(input[r].source_lang) /\ Malformed(input[r].target_lang)
        /\ pc[r] = "done" /\ pc[q] = "done"
        /\ responses[r] = responses[q]

\* C2: with the handle acquired, a malformed source_lang is answered 400
\* naming the source tag; otherwise a malformed target_lang is answered 400
\* naming the target tag; predict is not called in either case.
C2_ValidationOrder ==
    \A r \in Requests : (kind[r] = "translate" /\ client[r] # <<>>) =>
        /\ Malformed(input[r].source_lang) =>
              /\ responses[r] = <<[status |-> 400, body |-> [detail |-> Fmt("Invalid source language code: ", input[r].source_lang)]]>>
              /\ calls[r] = <<>>
        /\ (~Malformed(input[r].source_lang) /\ Malformed(input[r].target_lang)) =>
              /\ responses[r] = <<[status |-> 400, body |-> [detail |-> Fmt("Invalid target language code: ", input[r].target_lang)]]>>
              /\ calls[r] = <<>>

\* both tags malformed, the handle acquired, the request answered
C2_Witness ==
    \E r \in Requests :
        /\ kind[r] = "translate" /\ client[r] # <<>> /\ pc[r] = "done"
        /\ Malformed(input[r].source_lang) /\ Malformed(input[r].target_lang)

C4_HealthReportsHandle ==
    \A r \in Requests : (kind[r] = "health" /\ pc[r] = "done") =>
        responses[r] = <<[status |-> 200, body |-> [status |-> "healthy", client_loaded |-> WarmAt(r)]]>>

\* C5: at most one Client is ever constructed successfully; every successful
\* get_translator call returns that object, and no call after the first
\* success runs a construction.
C5_SingleConstruction ==
    /\ created <= 1
    /\ Cardinality(cache) <= 1
    /\ \A r \in Requests : client[r] # <<>> => (cache = {client[r][1]} /\ client[r][1].id = 1)
    /\ \A r \in Requests : (kind[r] \in {"translate", "warm"} /\ WarmAt(r)) => constructs[r] = 0

\* a request acquires the handle while an earlier one, holding it, awaits predict
C5_Witness ==
    \E r, q \in Requests :
        /\ r < q
        /\ pc[r] = "awaiting" /\ client[r] # <<>>
        /\ client[q] = client[r]

\* C6: when predict returns a result, the answer is 200 with that result as
\* translated_text and the request's two tags unchanged; predict was called
\* once, with text, source_language, target_language and api_name only.
C6_SuccessEchoesRequest ==
    \A r \in Requests : (kind[r] = "translate" /\ outcome[r] # <<>> /\ outcome[r][1].ok) =>
        /\ pc[r] = "done"
        /\ responses[r] = <<[status |-> 200, body |-> [translated_text |-> outcome[r][1].value, source_lang |-> input[r].source_lang, target_lang |-> input[r].target_lang]]>>
        /\ calls[r] = <<[text |-> input[r].text, source_language |-> input[r].source_lang, target_language |-> input[r].target_lang, api_name |-> "/predict"]>>
        /\ client[r] # <<>>
        /\ ~Malformed(input[r].source_lang) /\ ~Malformed(input[r].target_lang)

\* a translation from "en" to "fr" answered 200
C6_Witness ==
    \E r \in Requests :
        /\ kind[r] = "translate" /\ outcome[r] # <<>> /\ outcome[r][1].ok
        /\ input[r].source_lang = "en" /\ input[r].target_lang = "fr"
        /\ responses[r] # <<>>

\* C7: when predict raises, the answer is 502 with the fixed detail and the
\* request is over; no request has more than one predict call.
C7_UpstreamFailureTerminal ==
    /\ \A r \in Requests : Len(calls[r]) <= 1
    /\ \A r \in Requests : (kind[r] = "translate" /\ outcome[r] # <<>> /\ ~outcome[r][1].ok) =>
          /\ pc[r] = "done"
          /\ responses[r] = <<[status |-> 502, body |-> [detail |-> Fmt("Upstream translation failed", "")]]>>

\* two predict failures with different exception texts, same answer
C7_Witness ==
    \E r, q \in Requests :
        /\ outcome[r] # <<>> /\ outcome[q] # <<>>
        /\ ~outcome[r][1].ok /\ ~outcome[q][1].ok
        /\ outcome[r] # outcome[q]
        /\ responses[r] # <<>> /\ responses[r] = responses[q]

\* C8: /warm calls get_translator and answers "warmed" exactly when a handle
\* was obtained (built or cached), 503 with the error text exactly when the
\* construction failed; it makes no predict call.
C8_WarmReportsCreation ==
    \A r \in Requests : kind[r] = "warm" =>
        /\ pc[r] = "done"
        /\ calls[r] = <<>>
        /\ (client[r] # <<>>) <=> (responses[r] = <<[status |-> 200, body |-> [status |-> "warmed"]]>>)
        /\ (client[r] = <<>>) <=> (constructs[r] = 1 /\ initError[r] # <<>>)
        /\ (client[r] = <<>>) <=> (initError[r] # <<>> /\ responses[r] = <<[status |-> 503, body |-> [detail |-> initError[r][1]]]>>)
        /\ (client[r] # <<>>) => (constructs[r] = IF WarmAt(r) THEN 0 ELSE 1)

\* a failed warm followed by a warm that builds the handle
C8_Witness ==
    \E r, q \in Requests :
        /\ r < q
        /\ kind[r] = "warm" /\ kind[q] = "warm"
        /\ responses[r] # <<>> /\ responses[r][1].status = 503
        /\ responses[q] # <<>> /\ responses[q][1].status = 200

\* C9: while a request awaits predict, the next request can be handled
\* (/health, /warm or /translate) and any pending predict can complete; a
\* request has one response once done and none before.
C9_LoopNotStalled ==
    /\ \A r \in Requests : Len(responses[r]) = IF pc[r] = "done" THEN 1 ELSE 0
    /\ \A r \in Requests : pc[r] = "awaiting" =>
          /\ \A q \in Requests : q = arrived + 1 =>
                /\ ENABLED HealthCheck(q)
                /\ ENABLED (\E ok \in BOOLEAN, e \in ExcTexts : Warm(q, ok, e))
                /\ ENABLED (\E inp \in TranslationInput, ok \in BOOLEAN, e \in ExcTexts : Translate(q, inp, ok, e))
          /\ \A q \in Requests : pc[q] = "awaiting" => ENABLED (\E out \in PredictOutcomes : PredictReturn(q, out))

\* a later request is answered while an earlier one still awaits predict
C9_Witness ==
    \E r, q \in Requests :
        /\ r < q
        /\ pc[r] = "awaiting"
        /\ pc[q] = "done" /\ Len(responses[q]) = 1

\* C10: a failed construction leaves the cache empty; every get_translator
\* call that finds it empty runs a construction; only a constructed handle
\* is stored.
C10_FailureNotMemoized ==
    /\ (cache = {}) <=> (\A r \in Requests : client[r] = <<>>)
    /\ \A h \in cache : \E r \in Requests : client[r] = <<h>>
    /\ \A r \in Requests : (kind[r] \in {"translate", "warm"} /\ ~WarmAt(r)) => constructs[r] = 1
    /\ \A r \in Requests : initError[r] # <<>> => ~WarmAt(r)

\* a request answered 503 for a failed construction, a later one succeeding
C10_Witness ==
    \E r, q \in Requests :
        /\ r < q
        /\ initError[r] # <<>> /\ responses[r] # <<>> /\ responses[r][1].status = 503
        /\ client[q] # <<>> /\ constructs[q] = 1 /\ pc[q] = "done" /\ responses[q][1].status = 200

====
